---- MODULE Spec2Model ----
(***************************************************************************)
(* State-machine model of easybuild.tools.toolkit.Toolkit                  *)
(* (src/easybuild/tools/toolkit.py) together with the fatal-error sink of  *)
(* easybuild.tools.build_log (src/easybuild/tools/build_log.py).           *)
(*                                                                         *)
(* Python values are modelled as follows:                                  *)
(*   str          TLA+ string (\o, Len and SubSeq act on its characters)   *)
(*   dict         function whose DOMAIN is the set of keys                 *)
(*   list         sequence                                                 *)
(*   None         absence from a dict's DOMAIN; the option 'cstd' holds "" *)
(*                for None (both are falsy and never formatted)            *)
(*   exception    the record err = [type, msg]; pc = "failed"              *)
(***************************************************************************)
EXTENDS Integers, Sequences, FiniteSets, TLC

VARIABLES
    name,           \* Toolkit.name
    version,        \* Toolkit.version
    opts,           \* Toolkit.opts
    m32flag,        \* Toolkit.m32flag
    dependencies,   \* Toolkit.dependencies
    vars,           \* Toolkit.vars
    arch,           \* Toolkit.arch ("" for None)
    toolkit_deps,   \* Toolkit.toolkit_deps
    loaded,         \* the module system's list of loaded modules
    environ,        \* os.environ
    pc,             \* position of the caller in the Toolkit's lifecycle
    err,            \* the exception that ended the run, NoError otherwise
    warnings,       \* messages passed to log.warning
    onlymod,        \* argument of the running prepare call
    prev_loaded_modules, \* local of prepare
    preparation_methods, \* local of _generate_variables
    invoked,        \* history: rule-table keys of the rules called, in call order
    applied,        \* history: environment keys written by _setVariables, in order
    load_requests,  \* history: module lists handed to Modules.addModule, in order
    loaded_by_toolkit, \* history: what loaded_modules() returned on line 157
    retval          \* history: the latest direct call of a helper and its result

allVars == <<name, version, opts, m32flag, dependencies, vars, arch, toolkit_deps,
             loaded, environ, pc, err, warnings, onlymod, prev_loaded_modules,
             preparation_methods, invoked, applied, load_requests,
             loaded_by_toolkit, retval>>

-----------------------------------------------------------------------------
(* Bounds of the model *)

\* addDependencies is called while the dependency list is shorter than this
MaxDeps == 1

\* modules a toolkit module loads besides itself
MaxToolkitDeps == 2

-----------------------------------------------------------------------------
(* Python string and dict primitives *)

UpperAlpha == "ABCDEFGHIJKLMNOPQRSTUVWXYZ"
LowerAlpha == "abcdefghijklmnopqrstuvwxyz"

CharAt(s, i) == SubSeq(s, i, i)

\* the table that maps each character of from to the character of to at its place
CharTable(from, to) ==
    [c \in {CharAt(from, i) : i \in 1..Len(from)} |->
        CharAt(to, CHOOSE i \in 1..Len(from) : CharAt(from, i) = c)]

ToLowerTable == CharTable(UpperAlpha, LowerAlpha)
ToUpperTable == CharTable(LowerAlpha, UpperAlpha)

MapChar(c, table) == IF c \in DOMAIN table THEN table[c] ELSE c

RECURSIVE MapStr(_, _)
MapStr(s, table) ==
    IF Len(s) = 0 THEN ""
    ELSE MapChar(CharAt(s, 1), table) \o MapStr(SubSeq(s, 2, Len(s)), table)

\* str.lower() / str.upper()
Lower(s) == MapStr(s, ToLowerTable)
Upper(s) == MapStr(s, ToUpperTable)

\* str.endswith / str.startswith
EndsWith(s, t) == Len(s) >= Len(t) /\ SubSeq(s, Len(s) - Len(t) + 1, Len(s)) = t
StartsWith(s, t) == Len(s) >= Len(t) /\ SubSeq(s, 1, Len(t)) = t

\* substring test: t in s
Contains(s, t) == \E i \in 1..(Len(s) - Len(t) + 1) : SubSeq(s, i, i + Len(t) - 1) = t

\* d[k] = v on a dict
Put(d, k, v) == [x \in DOMAIN d \cup {k} |-> IF x = k THEN v ELSE d[x]]

EmptyDict == [x \in {} |-> ""]

\* list.remove(x): drops the first element equal to x
RECURSIVE RemoveFirst(_, _)
RemoveFirst(s, x) ==
    IF s = <<>> THEN <<>>
    ELSE IF Head(s) = x THEN Tail(s)
    ELSE <<Head(s)>> \o RemoveFirst(Tail(s), x)

SeqToSet(s) == {s[i] : i \in 1..Len(s)}

-----------------------------------------------------------------------------
(* build_log: the fatal-error sink *)

NoError == [type |-> "none", msg |-> ""]

\* EasyBuildLog.callerInfo: the place of the log.error call, with the path cut
\* down to start at the easybuild package
callerInfo(line, function_name) ==
    "(at easybuild/tools/toolkit.py:" \o line \o " in " \o function_name \o ")"

\* EasyBuildLog.error with raiseError = True: raise EasyBuildError(newMsg)
LogError(line, function_name, msg) ==
    [type |-> "EasyBuildError",
     msg |-> "EasyBuild crashed with an error " \o callerInfo(line, function_name)
             \o ": " \o msg]

\* no helper called yet
NoCall == [fn |-> "", arg |-> <<>>, val |-> ""]

\* an exception raised by the interpreter itself
PyError(type, msg) == [type |-> type, msg |-> msg]

-----------------------------------------------------------------------------
(* The module system behind easybuild.tools.modules.Modules *)

Mod(n, v) == [name |-> n, version |-> v]

\* the modules that exist on the host
ModuleRepo ==
    { Mod("GCC", "4.6.3"), Mod("GCC", "4.6.3-32bit"), Mod("goalf", "1.1.0"),
      Mod("OpenMPI", "1.4.5"), Mod("ATLAS", "3.8.4"), Mod("LAPACK", "3.4.0"),
      Mod("FFTW", "3.3.1"), Mod("unknownlib", "1.0"),
      Mod("zlib", "1.2.5"), Mod("ncurses", "5.9"), Mod("zlib", "1.2.5-GCC-4.6.3"),
      Mod("FFTW", "3.3.1-GCC-4.6.3"), Mod("FFTW", "3.3.1-goalf-1.1.0"),
      Mod("HDF5", "1.8.7-GCC-4.6.3"), Mod("HDF5", "1.8.9-GCC-4.6.3"),
      Mod("HDF5", "1.8.7-goalf-1.1.0"), Mod("FFTW", "3.3.11.0"),
      Mod("1_GCC", "4.6.3"), Mod("icc", "2011.6.233"), Mod("imkl", "10.2.6.038"),
      Mod("imkl", "10.3.6.233"), Mod("impi", "4.0.2"), Mod("MPICH2", "1.4"),
      Mod("MPICH2", "1.4-vSMP"), Mod("MVAPICH2", "1.7"), Mod("QLogicMPI", "2.9"),
      Mod("GotoBLAS", "1.13"), Mod("BLACS", "1.1"), Mod("FLAME", "5.0"),
      Mod("ScaLAPACK", "1.8.0"), Mod("ictce", "4.0.6-32bit"),
      Mod("ifort", "2011.6.233") }

\* `module avail` lists a name's versions in this order
AvailOrder ==
    << "1.0", "1.1", "1.1.0", "1.1.0-32bit", "1.13", "1.2.5", "1.2.5-GCC-4.6.3",
       "1.4", "1.4-vSMP", "1.4.5", "1.7", "1.8.0", "1.8.7-GCC-4.6.3",
       "1.8.7-goalf-1.1.0", "1.8.9-GCC-4.6.3", "10.2.6.038", "10.3.6.233", "2.9",
       "2011.6.233", "3.3.1", "3.3.1-GCC-4.6.3", "3.3.1-goalf-1.1.0",
       "3.3.11.0", "3.4.0", "3.8.4", "4.0.2", "4.0.6-32bit", "4.6.3", "4.6.3-32bit", "5.0", "5.9" >>

\* Modules().exists(name, version)
ModExists(n, v) == Mod(n, v) \in ModuleRepo

\* Modules().available(name, version): the versions of name matching the suffix
ModAvailable(n, suffix) ==
    SelectSeq(AvailOrder, LAMBDA v : Mod(n, v) \in ModuleRepo /\ EndsWith(v, suffix))

\* modules of the host that EasyBuild did not generate
ForeignModules == { Mod("ncurses", "5.9") }

\* what loading one module exports: the module files EasyBuild generates set
\* SOFTROOT<NAME> and SOFTVERSION<NAME>, the imkl module sets MKLROOT as well
ModuleEnv(m, env) ==
    LET root == "SOFTROOT" \o Upper(m.name)
        vers == "SOFTVERSION" \o Upper(m.name)
        dir == "/apps/" \o m.name \o "/" \o m.version
        env1 == Put(Put(env, root, dir), vers, m.version)
    IN IF m \in ForeignModules THEN env
       ELSE IF m.name = "imkl" THEN Put(env1, "MKLROOT", dir)
       ELSE env1

RECURSIVE ModulesEnv(_, _)
ModulesEnv(ms, env) ==
    IF ms = <<>> THEN env ELSE ModulesEnv(Tail(ms), ModuleEnv(Head(ms), env))

-----------------------------------------------------------------------------
(* Toolkit.__init__ *)

DefaultOpts ==
    [k \in {"usempi", "cciscxx", "pic", "opt", "noopt", "lowopt", "debug", "optarch",
            "i8", "unroll", "verbose", "cstd", "shared", "static", "intel-static",
            "loop", "f2c", "no-icc", "packed-groups", "32bit"} |->
        IF k = "optarch" THEN TRUE ELSE IF k = "cstd" THEN "" ELSE FALSE]

\* the opts dict as the constructor leaves it
InitOpts(v) ==
    IF EndsWith(v, "32bit") THEN [DefaultOpts EXCEPT !["32bit"] = TRUE] ELSE DefaultOpts

Initm32flag_Never(v) == ""

Initm32flag(v) == IF EndsWith(v, "32bit") THEN " -m32" ELSE ""

-----------------------------------------------------------------------------
(* Toolkit.setOptions *)

\* one pass of the loop body for key opt
setOption_Extend(o, options, opt) ==
    [opts |-> Put(o.opts, opt, options[opt]), warnings |-> o.warnings]

setOption(o, options, opt) ==
    IF opt \in DOMAIN o.opts
    THEN [opts |-> [o.opts EXCEPT ![opt] = options[opt]], warnings |-> o.warnings]
    ELSE [opts |-> o.opts,
          warnings |-> o.warnings \cup {"Undefined toolkit option " \o opt \o " specified."}]

RECURSIVE setOptionsLoop(_, _, _)
setOptionsLoop(o, options, keys) ==
    IF keys = {} THEN o
    ELSE LET opt == CHOOSE k \in keys : TRUE
         IN setOptionsLoop(setOption(o, options, opt), options, keys \ {opt})

setOptions(options) ==
    /\ pc = "idle"
    /\ LET r == setOptionsLoop([opts |-> opts, warnings |-> warnings], options,
                               DOMAIN options)
       IN /\ opts' = r.opts
          /\ warnings' = r.warnings
    /\ UNCHANGED <<name, version, m32flag, dependencies, vars, arch, toolkit_deps,
                   loaded, environ, pc, err, onlymod, prev_loaded_modules,
                   preparation_methods, invoked, applied, load_requests,
             loaded_by_toolkit, retval>>

-----------------------------------------------------------------------------
(* Toolkit._getOptimizationLevel *)

_getOptimizationLevel_OptFirst(o) ==
    IF o["opt"] THEN "O3"
    ELSE IF o["noopt"] THEN "O0"
    ELSE IF o["lowopt"] THEN "O1"
    ELSE "O2"

_getOptimizationLevel(o) ==
    IF o["noopt"] THEN "O0"
    ELSE IF o["opt"] THEN "O3"
    ELSE IF o["lowopt"] THEN "O1"
    ELSE "O2"

-----------------------------------------------------------------------------
(* Toolkit.getDependencyVersion *)

Has(d, k) == k \in DOMAIN d

\* dict.get(k, default)
Get(d, k, default) == IF Has(d, k) THEN d[k] ELSE default

\* the toolkit part of the version string
toolkitSuffix_NoIndependent(n, v, dependency) ==
    IF n # "dummy" THEN "-" \o n \o "-" \o v
    ELSE IF v # "dummy" THEN v
    ELSE ""

toolkitSuffix(n, v, dependency) ==
    IF Has(dependency, "dummy") /\ dependency["dummy"] THEN ""
    ELSE IF n # "dummy" THEN "-" \o n \o "-" \o v
    ELSE IF v # "dummy" THEN v
    ELSE ""

\* result: [val |-> the version string, err |-> NoError] or [err |-> the exception]
getDependencyVersion(n, v, dependency) ==
    LET toolkit == toolkitSuffix(n, v, dependency)
        suffix == Get(dependency, "suffix", "")
    IN IF Has(dependency, "version")
       THEN [val |-> dependency["version"] \o toolkit \o suffix, err |-> NoError]
       ELSE LET matches == ModAvailable(dependency["name"], toolkit \o suffix)
            IN IF Len(matches) > 0
               THEN [val |-> matches[Len(matches)], err |-> NoError]
               ELSE [val |-> "",
                     err |-> LogError("107", "getDependencyVersion",
                               "No toolkit version for dependency name "
                               \o dependency["name"] \o " (suffix "
                               \o toolkit \o suffix \o ") found")]

-----------------------------------------------------------------------------
(* Toolkit.addDependencies *)

\* the module existence test of the loop body
depExists_Always(n, tk) == TRUE

depExists(n, tk) == ModExists(n, tk)

\* the loop over the given descriptors; r = [deps, err]
RECURSIVE addDependenciesLoop(_, _, _, _)
addDependenciesLoop(n, v, r, todo) ==
    IF todo = <<>> \/ r.err # NoError THEN r
    ELSE LET dep == Head(todo)
             res == IF Has(dep, "tk") THEN [val |-> dep["tk"], err |-> NoError]
                    ELSE getDependencyVersion(n, v, dep)
         IN IF res.err # NoError THEN [deps |-> r.deps, err |-> res.err]
            ELSE LET dep2 == Put(dep, "tk", res.val)
                 IN IF ~depExists(dep2["name"], dep2["tk"])
                    THEN [deps |-> r.deps,
                          err |-> LogError("119", "addDependencies",
                                    "No module found for dependency "
                                    \o dep2["name"] \o "/" \o dep2["tk"])]
                    ELSE addDependenciesLoop(n, v,
                            [deps |-> Append(r.deps, dep2), err |-> NoError],
                            Tail(todo))

addDependencies(deps) ==
    /\ pc = "idle"
    /\ Len(dependencies) < MaxDeps
    /\ LET r == addDependenciesLoop(name, version,
                                    [deps |-> dependencies, err |-> NoError], deps)
       IN /\ dependencies' = r.deps
          /\ err' = r.err
          /\ pc' = IF r.err = NoError THEN "idle" ELSE "failed"
    /\ UNCHANGED <<name, version, opts, m32flag, vars, arch, toolkit_deps, loaded,
                   environ, warnings, onlymod, prev_loaded_modules,
                   preparation_methods, invoked, applied, load_requests,
             loaded_by_toolkit, retval>>

-----------------------------------------------------------------------------
(* More string primitives *)

\* sep.join(parts)
RECURSIVE Join(_, _)
Join(sep, parts) ==
    IF parts = <<>> THEN ""
    ELSE IF Len(parts) = 1 THEN parts[1]
    ELSE parts[1] \o sep \o Join(sep, Tail(parts))

\* s.replace(old, new), old not empty
RECURSIVE Replace(_, _, _)
Replace(s, old, new) ==
    LET hits == { i \in 1..(Len(s) - Len(old) + 1) : SubSeq(s, i, i + Len(old) - 1) = old }
    IN IF hits = {} THEN s
       ELSE LET i == CHOOSE h \in hits : \A g \in hits : h <= g
            IN SubSeq(s, 1, i - 1) \o new
               \o Replace(SubSeq(s, i + Len(old), Len(s)), old, new)

\* index of the first occurrence of the character c in s, 0 if there is none
RECURSIVE IndexOf(_, _, _)
IndexOf(s, c, i) ==
    IF i > Len(s) THEN 0
    ELSE IF CharAt(s, i) = c THEN i
    ELSE IndexOf(s, c, i + 1)

\* s.split(c), c one character
RECURSIVE Split(_, _)
Split(s, c) ==
    LET i == IndexOf(s, c, 1)
    IN IF i = 0 THEN <<s>>
       ELSE <<SubSeq(s, 1, i - 1)>> \o Split(SubSeq(s, i + 1, Len(s)), c)

-----------------------------------------------------------------------------
(* The host: /proc/cpuinfo and the directories under the installation roots *)

\* directories for which os.path.isdir holds
ExistingDirs ==
    { "/apps/ATLAS/3.8.4/include", "/apps/ATLAS/3.8.4/lib",
      "/apps/LAPACK/3.4.0/lib",
      "/apps/FFTW/3.3.1/include", "/apps/FFTW/3.3.1/lib64", "/apps/FFTW/3.3.1/lib",
      "/apps/FFTW/3.3.1-goalf-1.1.0/include", "/apps/FFTW/3.3.1-goalf-1.1.0/lib",
      "/apps/HDF5/1.8.7-goalf-1.1.0/include",
      "/apps/imkl/10.2.6.038/lib/em64t", "/apps/imkl/10.2.6.038/include",
      "/apps/imkl/10.3.6.233/mkl/lib/intel64", "/apps/imkl/10.3.6.233/mkl/include",
      "/apps/BLACS/1.1/lib", "/apps/ScaLAPACK/1.8.0/lib" }

isdir(d) == d \in ExistingDirs

\* os.path.join(base, subdir) for a relative subdir
PathJoin(base, subdir) ==
    IF base = "" \/ EndsWith(base, "/") THEN base \o subdir ELSE base \o "/" \o subdir

\* easybuild.tools.modules.getSoftwareRoot(name): the value of SOFTROOT<NAME>, "" for None
getSoftwareRoot(n, env) == Get(env, "SOFTROOT" \o Upper(n), "")

-----------------------------------------------------------------------------
(* Results threaded through the preparation rules: the vars dict, the exception *)
(* raised (NoError while running) and the warnings logged.                     *)

Ok(v, w) == [vars |-> v, err |-> NoError, warnings |-> w]
Raise(r, e) == [r EXCEPT !.err = e]
SetVar(r, k, val) == [r EXCEPT !.vars = Put(r.vars, k, val)]

-----------------------------------------------------------------------------
(* Toolkit._flagsForSubdirs *)

\* the loop over subdirs; acc = [flags, warnings]
RECURSIVE subdirFlags(_, _, _, _)
subdirFlags(acc, base, subdirs, flag) ==
    IF subdirs = <<>> THEN acc
    ELSE LET directory == PathJoin(base, Head(subdirs))
         IN IF isdir(directory)
            THEN subdirFlags([acc EXCEPT !.flags = Append(@, flag \o directory)],
                             base, Tail(subdirs), flag)
            ELSE subdirFlags([acc EXCEPT !.warnings =
                                 @ \cup {"Directory " \o directory \o " was not found"}],
                             base, Tail(subdirs), flag)

_flagsForSubdirs_Replace(r, base, subdirs, flag, varskey) ==
    LET acc == subdirFlags([flags |-> <<>>, warnings |-> r.warnings], base, subdirs, flag)
    IN [vars |-> Put(r.vars, varskey, " " \o Join(" ", acc.flags)),
        err |-> r.err, warnings |-> acc.warnings]

_flagsForSubdirs(r, base, subdirs, flag, varskey) ==
    LET acc == subdirFlags([flags |-> <<>>, warnings |-> r.warnings], base, subdirs, flag)
        old == IF Has(r.vars, varskey) THEN r.vars[varskey] ELSE ""
    IN [vars |-> Put(r.vars, varskey, old \o " " \o Join(" ", acc.flags)),
        err |-> r.err, warnings |-> acc.warnings]

-----------------------------------------------------------------------------
(* Toolkit._addDependencyVariables *)

\* repr of a dependency dict (the key order of a Python dict is not modelled)
PyRepr(dep, k) == IF k = "dummy" THEN (IF dep[k] THEN "True" ELSE "False")
                  ELSE "'" \o dep[k] \o "'"

DepRepr(dep) ==
    LET keys == SelectSeq(<<"name", "version", "dummy", "suffix", "tk">>,
                          LAMBDA k : Has(dep, k))
    IN "{" \o Join(", ", [i \in 1..Len(keys) |->
                            "'" \o keys[i] \o "': " \o PyRepr(dep, keys[i])]) \o "}"

RECURSIVE _addDependencyVariables(_, _, _)
_addDependencyVariables(r, deps, env) ==
    IF deps = <<>> \/ r.err # NoError THEN r
    ELSE LET dep == Head(deps)
             softwareRoot == getSoftwareRoot(dep["name"], env)
         IN IF softwareRoot = ""
            THEN Raise(r, LogError("196", "_addDependencyVariables",
                        dep["name"] \o " was not found in environment (dep: "
                        \o DepRepr(dep) \o ")"))
            ELSE _addDependencyVariables(
                    _flagsForSubdirs(
                        _flagsForSubdirs(r, softwareRoot, <<"include">>, "-I", "CPPFLAGS"),
                        softwareRoot, <<"lib64", "lib">>, "-L", "LDFLAGS"),
                    Tail(deps), env)

\* the call with one dependency given: deps = [dep]
addDependencyVariablesFor(r, n, env) == _addDependencyVariables(r, <<[name |-> n]>>, env)

-----------------------------------------------------------------------------
(* distutils.version.LooseVersion *)

Digits == "0123456789"

IsDigit(c) == \E i \in 1..Len(Digits) : CharAt(Digits, i) = c

DigitVal(c) == (CHOOSE i \in 1..Len(Digits) : CharAt(Digits, i) = c) - 1

\* component_re = (\d+ | [a-z]+ | \.): a component is a run of digits (an int), a
\* run of lower-case letters, or the text between two such runs; '.' is dropped
CompKind(c) ==
    IF c = "." THEN "dot"
    ELSE IF IsDigit(c) THEN "int"
    ELSE IF \E i \in 1..Len(LowerAlpha) : CharAt(LowerAlpha, i) = c THEN "alpha"
    ELSE "other"

\* length of the run of characters of kind k at the start of s
RECURSIVE RunLen(_, _)
RunLen(s, k) ==
    IF Len(s) = 0 \/ CompKind(CharAt(s, 1)) # k THEN 0
    ELSE 1 + RunLen(SubSeq(s, 2, Len(s)), k)

RECURSIVE ToInt(_, _)
ToInt(s, acc) ==
    IF Len(s) = 0 THEN acc
    ELSE ToInt(SubSeq(s, 2, Len(s)), 10 * acc + DigitVal(CharAt(s, 1)))

\* LooseVersion(s).version: components [int |-> n] or [str |-> t]
RECURSIVE LooseParse(_)
LooseParse(s) ==
    IF Len(s) = 0 THEN <<>>
    ELSE LET k == CompKind(CharAt(s, 1))
             n == RunLen(s, k)
             rest == SubSeq(s, n + 1, Len(s))
         IN IF k = "dot" THEN LooseParse(SubSeq(s, 2, Len(s)))
            ELSE IF k = "int"
                 THEN <<[kind |-> "int", int |-> ToInt(SubSeq(s, 1, n), 0), str |-> ""]>>
                      \o LooseParse(rest)
                 ELSE <<[kind |-> "str", int |-> 0, str |-> SubSeq(s, 1, n)]>>
                      \o LooseParse(rest)

\* Python 2 orders every int before every str; strings of the versions compared
\* here are only tested for equality
CompLess(a, b) ==
    IF a.kind = "int" /\ b.kind = "int" THEN a.int < b.int
    ELSE a.kind = "int" /\ b.kind = "str"

RECURSIVE ListLess(_, _)
ListLess(a, b) ==
    IF b = <<>> THEN FALSE
    ELSE IF a = <<>> THEN TRUE
    ELSE IF Head(a) = Head(b) THEN ListLess(Tail(a), Tail(b))
    ELSE CompLess(Head(a), Head(b))

\* LooseVersion(a) < LooseVersion(b)
LooseLess(a, b) == ListLess(LooseParse(a), LooseParse(b))

-----------------------------------------------------------------------------
(* Flag Composer: Toolkit._flagsForOptions, Toolkit._getOptimalArchitecture *)

\* flagOptions after update(override): key, flag tokens. The keys are visited in
\* dict order, which this sequence fixes.
BaseFlagOptions ==
    << <<"pic", <<"fPIC">> >>, <<"debug", <<"g">> >>, <<"i8", <<"i8">> >>,
       <<"static", <<"static">> >>, <<"unroll", <<"unroll">> >>,
       <<"verbose", <<"v">> >>, <<"shared", <<"shared">> >> >>

\* dict.update: an overriding entry replaces the entry of its key, a new key is added
RECURSIVE DictUpdate(_, _)
DictUpdate(base, override) ==
    IF override = <<>> THEN base
    ELSE LET e == Head(override)
             hit == \E i \in 1..Len(base) : base[i][1] = e[1]
         IN DictUpdate(IF hit THEN [i \in 1..Len(base) |->
                                       IF base[i][1] = e[1] THEN e ELSE base[i]]
                       ELSE Append(base, e),
                       Tail(override))

RECURSIVE flagsOf(_, _)
flagsOf(o, flagOptions) ==
    IF flagOptions = <<>> THEN <<>>
    ELSE (IF o[Head(flagOptions)[1]] THEN Head(flagOptions)[2] ELSE <<>>)
         \o flagsOf(o, Tail(flagOptions))

_flagsForOptions(o, override) == flagsOf(o, DictUpdate(BaseFlagOptions, override))

GCCOverride ==
    << <<"i8", <<"fdefault-integer-8">> >>, <<"unroll", <<"funroll-loops">> >>,
       <<"f2c", <<"ff2c">> >>,
       <<"loop", <<"ftree-switch-conversion", "floop-interchange",
                   "floop-strip-mine", "floop-block">> >> >>

IccOverride ==
    << <<"intel-static", <<"static-intel">> >>, <<"no-icc", <<"no-icc">> >> >>

\* [val, err]
_getOptimalArchitecture(a) ==
    IF a = "Intel" THEN [val |-> "xHOST", err |-> NoError]
    ELSE IF a = "AMD" THEN [val |-> "msse3", err |-> NoError]
    ELSE [val |-> "", err |-> LogError("245", "_getOptimalArchitecture",
                                "Don't know how to set optarch for "
                                \o (IF a = "" THEN "None" ELSE a) \o ".")]

-----------------------------------------------------------------------------
(* Library preparation rules. Each takes and returns a result r = [vars, err,   *)
(* warnings] and reads self.opts, self.m32flag, self.arch and os.environ.       *)

\* os.getenv(k) formatted with %s; None prints as "None"
FmtEnv(k) == IF Has(environ, k) THEN environ[k] ELSE "None"

\* truth value of os.getenv(k)
EnvTrue(k) == Has(environ, k) /\ environ[k] # ""

KeyError(k) == PyError("KeyError", "'" \o k \o "'")

\* assignments self.vars[k] = val, in order
RECURSIVE SetVars(_, _)
SetVars(r, pairs) ==
    IF pairs = <<>> THEN r
    ELSE SetVars(SetVar(r, Head(pairs)[1], Head(pairs)[2]), Tail(pairs))

\* for i in ['CC', 'CXX', 'F77', 'F90']: self.vars[i] = self.vars["MPI%s" % i]
UseMpiCompilers(r) ==
    SetVars(r, << <<"CC", r.vars["MPICC"]>>, <<"CXX", r.vars["MPICXX"]>>,
                  <<"F77", r.vars["MPIF77"]>>, <<"F90", r.vars["MPIF90"]>> >>)

prepareATLAS(r) ==
    addDependencyVariablesFor(
        SetVars(r, << <<"LIBBLAS", " -latlas -llapack -lcblas -lf77blas">>,
                      <<"LIBBLAS_MT",
                        " -latlas -llapack -lptcblas -lptf77blas -lpthread">> >>),
        "ATLAS", environ)

prepareBLACS_Append(r) ==
    addDependencyVariablesFor(
        SetVars(r, << <<"LIBSCALAPACK",
                        Get(r.vars, "LIBSCALAPACK", "") \o " -lblacsF77init -lblacs ">>,
                      <<"LIBSCALAPACK_MT",
                        Get(r.vars, "LIBSCALAPACK_MT", "") \o " -lblacsF77init -lblacs ">> >>),
        "BLACS", environ)

prepareBLACS(r) ==
    addDependencyVariablesFor(
        SetVars(r, << <<"LIBSCALAPACK", " -lblacsF77init -lblacs ">>,
                      <<"LIBSCALAPACK_MT", " -lblacsF77init -lblacs ">> >>),
        "BLACS", environ)

prepareFLAME(r) ==
    IF ~Has(r.vars, "LIBLAPACK") THEN Raise(r, KeyError("LIBLAPACK"))
    ELSE LET r1 == SetVar(r, "LIBLAPACK", r.vars["LIBLAPACK"] \o " -llapack2flame -lflame ")
         IN IF ~Has(r1.vars, "LIBLAPACK_MT") THEN Raise(r1, KeyError("LIBLAPACK_MT"))
            ELSE addDependencyVariablesFor(
                    SetVar(r1, "LIBLAPACK_MT",
                           r1.vars["LIBLAPACK_MT"] \o " -llapack2flame -lflame "),
                    "FLAME", environ)

prepareFFTW(r) ==
    IF ~Has(environ, "SOFTVERSIONFFTW")
    THEN Raise(r, PyError("AttributeError",
                          "'NoneType' object has no attribute 'startswith'"))
    ELSE LET suffix == IF StartsWith(environ["SOFTVERSIONFFTW"], "3.") THEN "3" ELSE ""
             fft == " -lfftw" \o suffix \o " "
             r1 == SetVar(r, "LIBFFT", fft)
             r2 == IF opts["usempi"]
                   THEN SetVar(r1, "LIBFFT", fft \o " -lfftw" \o suffix \o "_mpi ")
                   ELSE r1
         IN addDependencyVariablesFor(r2, "FFTW", environ)

\* the compiler flags shared by the two compiler rules
joinFlags(flags) == "-" \o Join(" -", flags)

prepareGCC(r) ==
    IF opts["32bit"]
    THEN Raise(r, LogError("385", "prepareGCC",
                           "ERROR: 32-bit not supported yet for GCC based toolkits."))
    ELSE LET r1 == SetVars(r, << <<"CC", "gcc " \o m32flag>>,
                                 <<"CXX", "g++ " \o m32flag>>,
                                 <<"F77", "gfortran " \o m32flag \o " ">>,
                                 <<"F90", "gfortran " \o m32flag>> >>)
             r2 == IF opts["cciscxx"] THEN SetVar(r1, "CXX", r1.vars["CC"]) ELSE r1
             flags == (IF opts["optarch"] THEN <<"march=native">> ELSE <<>>)
                      \o <<_getOptimizationLevel(opts)>>
                      \o _flagsForOptions(opts, GCCOverride)
             copts == IF opts["cstd"] # "" THEN <<"std=" \o opts["cstd"]>> ELSE <<>>
             r3 == IF Len(flags \o copts) > 0
                   THEN SetVar(r2, "CFLAGS", joinFlags(flags \o copts)) ELSE r2
             r4 == IF Len(flags) > 0
                   THEN SetVars(r3, << <<"CXXFLAGS", joinFlags(flags)>>,
                                       <<"FFLAGS", joinFlags(flags)>>,
                                       <<"F90FLAGS", joinFlags(flags)>> >>)
                   ELSE r3
         IN SetVar(r4, "FLIBS", "-lgfortran")

prepareGotoBLAS(r) ==
    addDependencyVariablesFor(
        SetVars(r, << <<"LIBBLAS", "-lgoto">>, <<"LIBBLAS_MT", "-lgoto">> >>),
        "GotoBLAS", environ)

prepareIcc(r) ==
    LET r1 == SetVars(r, << <<"CC", "icc" \o m32flag>>, <<"CXX", "icpc" \o m32flag>>,
                            <<"F77", "ifort" \o m32flag>>, <<"F90", "ifort" \o m32flag>> >>)
        r2 == IF opts["cciscxx"] THEN SetVar(r1, "CXX", r1.vars["CC"]) ELSE r1
        optarch == _getOptimalArchitecture(arch)
    IN IF opts["optarch"] /\ optarch.err # NoError THEN Raise(r2, optarch.err)
       ELSE LET flags == (IF opts["optarch"] THEN <<optarch.val>> ELSE <<>>)
                         \o <<_getOptimizationLevel(opts)>>
                         \o _flagsForOptions(opts, IccOverride)
                copts == IF opts["cstd"] # "" THEN <<"std=" \o opts["cstd"]>> ELSE <<>>
                r3 == IF Len(flags \o copts) > 0
                      THEN SetVar(r2, "CFLAGS", joinFlags(flags \o copts)) ELSE r2
                r4 == IF Len(flags) > 0
                      THEN SetVars(r3, << <<"CXXFLAGS", joinFlags(flags)>>,
                                          <<"FFLAGS", joinFlags(flags)>> >>)
                      ELSE r3
            IN IF ~Has(environ, "SOFTVERSIONICC")
               THEN Raise(r4, KeyError("SOFTVERSIONICC"))
               ELSE IF ~Has(r4.vars, "LIBS") THEN Raise(r4, KeyError("LIBS"))
               ELSE IF LooseLess(environ["SOFTVERSIONICC"], "2011")
                    THEN SetVar(r4, "LIBS", r4.vars["LIBS"] \o " -liomp5 -lguide -lpthread")
                    ELSE SetVar(r4, "LIBS", r4.vars["LIBS"] \o " -liomp5 -lpthread")

\* for var in keys: self.vars[var] = self.vars[var].replace(old, new)
RECURSIVE ReplaceIn(_, _, _, _)
ReplaceIn(r, keys, old, new) ==
    IF keys = <<>> THEN r
    ELSE ReplaceIn(SetVar(r, Head(keys), Replace(r.vars[Head(keys)], old, new)),
                   Tail(keys), old, new)

prepareIMKL(r) ==
    IF ~EnvTrue("MKLROOT")
    THEN Raise(r, LogError("484", "prepareIMKL", "MKLROOT not found in environment"))
    ELSE
    LET mkl == environ["MKLROOT"]
        bit32 == opts["32bit"]
        libsuffix == IF bit32 THEN "" ELSE "_lp64"
        libsuffixsl == IF bit32 THEN "_core" ELSE "_lp64"
        libdir == IF bit32 THEN "32" ELSE "em64t"
        d == mkl \o "/lib/" \o libdir \o "/"
        lapack == "-Wl,--start-group " \o d \o "libmkl_intel" \o libsuffix \o ".a "
                  \o d \o "libmkl_sequential.a "
                  \o d \o "libmkl_core.a -Wl,--end-group"
        lapack_mt == "-Wl,--start-group " \o d \o "libmkl_intel" \o libsuffix \o ".a "
                     \o d \o "libmkl_intel_thread.a "
                     \o d \o "libmkl_core.a -Wl,--end-group "
                     \o "-liomp5 -lpthread"
        scalapack == d \o "libmkl_scalapack" \o libsuffixsl \o ".a "
                     \o d \o "libmkl_solver" \o libsuffix \o "_sequential.a "
                     \o "-Wl,--start-group  " \o d \o "libmkl_intel" \o libsuffix \o ".a "
                     \o d \o "libmkl_sequential.a "
                     \o d \o "libmkl_core.a "
                     \o d \o "libmkl_blacs_intelmpi" \o libsuffix \o ".a -Wl,--end-group"
        r1 == SetVars(r, << <<"LIBLAPACK", lapack>>, <<"LIBBLAS", lapack>>,
                            <<"LIBLAPACK_MT", lapack_mt>>, <<"LIBBLAS_MT", lapack_mt>>,
                            <<"LIBSCALAPACK", scalapack>> >>)
        packed == <<"LIBLAPACK", "LIBBLAS", "LIBLAPACK_MT", "LIBSCALAPACK">>
        r2 == IF opts["packed-groups"]
              THEN ReplaceIn(ReplaceIn(r1, packed, " ", ","), packed,
                             "-Wl,--end-group", "--end-group")
              ELSE r1
        lib == Replace(Replace(r2.vars["LIBSCALAPACK"],
                               "libmkl_solver" \o libsuffix \o "_sequential",
                               "libmkl_solver"),
                       "libmkl_sequential", "libmkl_intel_thread") \o " -liomp5 -lpthread"
        r3 == SetVar(r2, "LIBSCALAPACK_MT", lib)
    IN IF ~Has(environ, "SOFTVERSIONIMKL") THEN Raise(r3, KeyError("SOFTVERSIONIMKL"))
       ELSE
       LET old == LooseLess(environ["SOFTVERSIONIMKL"], "10.3")
           mklld == IF old THEN (IF bit32 THEN <<"lib/32">> ELSE <<"lib/em64t">>)
                    ELSE <<"lib/intel64", "mkl/lib/intel64">>
           mklcpp == IF old THEN <<"include", "include/fftw">>
                     ELSE <<"mkl/include", "mkl/include/fftw">>
       IN IF ~old /\ bit32
          THEN \* os.environ("SOFTROOTIMKL"): os.environ is not callable
               Raise(r3, PyError("AttributeError",
                                 "_Environ instance has no __call__ method"))
          ELSE
          LET r4 == IF old THEN r3
                    ELSE ReplaceIn(r3, <<"LIBBLAS", "LIBBLAS_MT", "LIBLAPACK",
                                         "LIBLAPACK_MT", "LIBSCALAPACK", "LIBSCALAPACK_MT">>,
                                   "/lib/em64t/", "/mkl/lib/intel64/")
              r5 == _flagsForSubdirs(r4, mkl, mklld, "-L", "LDFLAGS")
              r6 == _flagsForSubdirs(r5, mkl, mklcpp, "-I", "CPPFLAGS")
          IN IF EnvTrue("SOFTROOTGCC")
             THEN IF ~(EnvTrue("SOFTROOTGCC") \/ EnvTrue("SOFTROOTGCC"))
                  THEN ReplaceIn(r6, <<"LIBLAPACK", "LIBLAPACK_MT", "LIBSCALAPACK",
                                       "LIBSCALAPACK_MT">>,
                                 "mkl_intel_lp64", "mkl_gf_lp64")
                  ELSE Raise(r6, LogError("561", "prepareIMKL",
                         "Toolkit preparation with both GCC and Intel compilers loaded is not supported."))
             ELSE r6

prepareIMPI(r) ==
    IF EnvTrue("SOFTROOTICC") /\ EnvTrue("SOFTROOTIFORT") /\ ~EnvTrue("SOFTROOTGCC")
    THEN LET r1 == SetVars(r, << <<"MPICC", "mpiicc " \o m32flag>>,
                                 <<"MPICXX", "mpiicpc " \o m32flag>>,
                                 <<"MPIF77", "mpiifort " \o m32flag>>,
                                 <<"MPIF90", "mpiifort " \o m32flag>> >>)
             r2 == IF opts["usempi"] THEN UseMpiCompilers(r1) ELSE r1
             r3 == SetVars(r2, << <<"I_MPI_CXX", "icpc">>, <<"I_MPI_CC", "icc">> >>)
         IN IF opts["cciscxx"] THEN SetVar(r3, "MPICXX", r3.vars["MPICC"]) ELSE r3
    ELSE IF ~Has(r.vars, "CC") THEN Raise(r, KeyError("CC"))
    ELSE LET r1 == SetVar(r, "MPICC", "mpicc -cc=" \o r.vars["CC"] \o " " \o m32flag \o " ")
         IN IF ~Has(r1.vars, "CXX") THEN Raise(r1, KeyError("CXX"))
    ELSE LET r2 == SetVar(r1, "MPICXX",
                          "mpicxx -cxx=" \o r1.vars["CXX"] \o " " \o m32flag \o " ")
         IN IF ~Has(r2.vars, "F77") THEN Raise(r2, KeyError("F77"))
    ELSE LET r3 == SetVar(r2, "MPIF77",
                          "mpif77 -fc=" \o r2.vars["F77"] \o " " \o m32flag \o " ")
         IN IF ~Has(r3.vars, "F90") THEN Raise(r3, KeyError("F90"))
    ELSE SetVar(r3, "MPIF90", "mpif90 -fc=" \o r3.vars["F90"] \o " " \o m32flag \o " ")

prepareQLogicMPI(r) ==
    LET r1 == SetVars(r, << <<"MPICC", "mpicc -cc=\"" \o FmtEnv("CC") \o "\"">>,
                            <<"MPICXX", "mpicxx -CC=\"" \o FmtEnv("CXX") \o "\"">>,
                            <<"MPIF77", "mpif77 -fc=\"" \o FmtEnv("F77") \o "\"">>,
                            <<"MPIF90", "mpif90 -f90=\"" \o FmtEnv("F90") \o "\"">> >>)
    IN IF opts["usempi"] THEN UseMpiCompilers(r1) ELSE r1

prepareLAPACK_NoBLAS(r) ==
    addDependencyVariablesFor(
        SetVars(r, << <<"LIBLAPACK", " -llapack">>,
                      <<"LIBLAPACK_MT", " -llapack -lpthread">> >>),
        "LAPACK", environ)

prepareLAPACK(r) ==
    IF ~Has(r.vars, "LIBBLAS") THEN Raise(r, KeyError("LIBBLAS"))
    ELSE LET r1 == SetVar(r, "LIBLAPACK", r.vars["LIBBLAS"] \o " -llapack")
         IN IF ~Has(r1.vars, "LIBBLAS_MT") THEN Raise(r1, KeyError("LIBBLAS_MT"))
            ELSE addDependencyVariablesFor(
                    SetVar(r1, "LIBLAPACK_MT",
                           r1.vars["LIBBLAS_MT"] \o " -llapack -lpthread"),
                    "LAPACK", environ)

prepareMPICH2(r) ==
    IF ~Has(environ, "SOFTVERSIONMPICH2")
    THEN Raise(r, PyError("TypeError", "argument of type 'NoneType' is not iterable"))
    ELSE IF Contains(environ["SOFTVERSIONMPICH2"], "vSMP")
    THEN LET q == " " \o m32flag \o "\""
             r1 == SetVars(r, << <<"MPICC", "mpicc -cc=\"" \o FmtEnv("CC") \o q>>,
                                 <<"MPICXX", "mpicxx -CC=\"" \o FmtEnv("CXX") \o q>>,
                                 <<"MPIF77", "mpif77 -fc=\"" \o FmtEnv("F77") \o q>>,
                                 <<"MPIF90", "mpif90 -f90=\"" \o FmtEnv("F90") \o q>> >>)
             r2 == IF opts["cciscxx"] THEN SetVar(r1, "MPICXX", r1.vars["MPICC"]) ELSE r1
         IN IF opts["usempi"] THEN UseMpiCompilers(r2) ELSE r2
    ELSE \* self.log.error: a Toolkit has no attribute log
         Raise(r, PyError("AttributeError", "Toolkit instance has no attribute 'log'"))

prepareSimpleMPI(r) ==
    LET r1 == SetVars(r, << <<"MPICC", "mpicc " \o m32flag>>,
                            <<"MPICXX", "mpicxx " \o m32flag>>,
                            <<"MPIF77", "mpif77 " \o m32flag>>,
                            <<"MPIF90", "mpif90 " \o m32flag>> >>)
        r2 == IF opts["cciscxx"] THEN SetVar(r1, "MPICXX", r1.vars["MPICC"]) ELSE r1
    IN IF opts["usempi"] THEN UseMpiCompilers(r2) ELSE r2

prepareMVAPICH2(r) == prepareSimpleMPI(r)

prepareOpenMPI(r) == prepareSimpleMPI(r)

prepareScaLAPACK(r) ==
    IF ~Has(r.vars, "LIBSCALAPACK") THEN Raise(r, KeyError("LIBSCALAPACK"))
    ELSE LET r1 == SetVar(r, "LIBSCALAPACK", r.vars["LIBSCALAPACK"] \o " -lscalapack")
         IN IF ~Has(r1.vars, "LIBSCALAPACK_MT") THEN Raise(r1, KeyError("LIBSCALAPACK_MT"))
            ELSE addDependencyVariablesFor(
                    SetVar(r1, "LIBSCALAPACK_MT",
                           r1.vars["LIBSCALAPACK_MT"] \o " " \o r1.vars["LIBSCALAPACK"]
                           \o " -lpthread"),
                    "ScaLAPACK", environ)

-----------------------------------------------------------------------------
(* Toolkit._generate_variables: the rule table and the selection of rules *)

\* meth_keys after sort()
meth_keys ==
    << "1_GCC", "1_icc", "2_MPICH2", "2_MVAPICH2", "2_OpenMPI", "2_QLogicMPI",
       "2_impi", "3_ATLAS", "3_FFTW", "3_GotoBLAS", "3_imkl", "4_LAPACK",
       "5_BLACS", "5_FLAME", "6_ScaLAPACK" >>

\* known_preparation_methods[meth]()
CallRule(meth, r) ==
    CASE meth = "1_GCC" -> prepareGCC(r)
      [] meth = "1_icc" -> prepareIcc(r)
      [] meth = "2_impi" -> prepareIMPI(r)
      [] meth = "2_MPICH2" -> prepareMPICH2(r)
      [] meth = "2_MVAPICH2" -> prepareMVAPICH2(r)
      [] meth = "2_OpenMPI" -> prepareOpenMPI(r)
      [] meth = "2_QLogicMPI" -> prepareQLogicMPI(r)
      [] meth = "3_ATLAS" -> prepareATLAS(r)
      [] meth = "3_FFTW" -> prepareFFTW(r)
      [] meth = "3_GotoBLAS" -> prepareGotoBLAS(r)
      [] meth = "3_imkl" -> prepareIMKL(r)
      [] meth = "4_LAPACK" -> prepareLAPACK(r)
      [] meth = "5_BLACS" -> prepareBLACS(r)
      [] meth = "5_FLAME" -> prepareFLAME(r)
      [] meth = "6_ScaLAPACK" -> prepareScaLAPACK(r)

\* '_'.join(meth.split('_')[1:])
meth_name(meth) == Join("_", Tail(Split(meth, "_")))

\* the bit before the first '_', used for ordering
meth_prio(meth) == ToInt(Head(Split(meth, "_")), 0)

\* the inner loop: the first key of meth_keys whose name matches dep, "" if none
RECURSIVE findMethLower(_, _)
findMethLower(deplower, keys) ==
    IF keys = <<>> THEN ""
    ELSE IF deplower = Lower(meth_name(Head(keys))) THEN Head(keys)
    ELSE findMethLower(deplower, Tail(keys))

findMeth(dep, keys) == findMethLower(Lower(dep), keys)

\* the outer loop over depnames; sel = [meths, err]
RECURSIVE selectMethods_SkipUnknown(_, _)
selectMethods_SkipUnknown(sel, depnames) ==
    IF depnames = <<>> THEN sel
    ELSE LET meth == findMeth(Head(depnames), meth_keys)
         IN selectMethods_SkipUnknown(
                IF meth = "" THEN sel ELSE [sel EXCEPT !.meths = Append(@, meth)],
                Tail(depnames))

RECURSIVE selectMethods(_, _)
selectMethods(sel, depnames) ==
    IF depnames = <<>> \/ sel.err # NoError THEN sel
    ELSE LET dep == Head(depnames)
             meth == findMeth(dep, meth_keys)
         IN IF meth = ""
            THEN [sel EXCEPT !.err = LogError("294", "_generate_variables",
                      "Don't know how to prepare for toolkit dependency " \o dep)]
            ELSE selectMethods([sel EXCEPT !.meths = Append(@, meth)], Tail(depnames))

\* depnames: the lower-cased names of toolkit_deps
depnamesOf(deps) == [i \in 1..Len(deps) |-> Lower(deps[i].name)]

\* where prepare goes once _generate_variables has returned
AfterGenerate_Always(arg) == "depvars"

AfterGenerate(arg) == IF arg.type = "bool" /\ arg.b THEN "done" ELSE "depvars"

\* lines 275-300: select the rules, then initialise LDFLAGS, CPPFLAGS and LIBS
_generate_variables ==
    /\ pc = "generate"
    /\ LET sel == selectMethods([meths |-> <<>>, err |-> NoError],
                                depnamesOf(toolkit_deps))
       IN IF sel.err # NoError
          THEN /\ pc' = "failed"
               /\ err' = sel.err
               /\ UNCHANGED <<vars, preparation_methods>>
          ELSE /\ pc' = "rules"
               /\ preparation_methods' = sel.meths
               /\ vars' = Put(Put(Put(vars, "LDFLAGS", ""), "CPPFLAGS", ""), "LIBS", "")
               /\ err' = err
    /\ UNCHANGED <<name, version, opts, m32flag, dependencies, arch, toolkit_deps,
                   loaded, environ, warnings, onlymod, prev_loaded_modules, invoked,
                   applied, load_requests, loaded_by_toolkit, retval>>

\* lines 302-303: call the next selected rule
preparation_method ==
    /\ pc = "rules"
    /\ Len(invoked) < Len(preparation_methods)
    /\ LET meth == preparation_methods[Len(invoked) + 1]
           r == CallRule(meth, Ok(vars, warnings))
       IN /\ invoked' = Append(invoked, meth)
          /\ vars' = r.vars
          /\ warnings' = r.warnings
          /\ err' = r.err
          /\ pc' = IF r.err # NoError THEN "failed"
                   ELSE IF Len(invoked) + 1 = Len(preparation_methods)
                        THEN AfterGenerate(onlymod)
                        ELSE "rules"
    /\ UNCHANGED <<name, version, opts, m32flag, dependencies, arch, toolkit_deps,
                   loaded, environ, onlymod, prev_loaded_modules, preparation_methods,
                   applied, load_requests, loaded_by_toolkit, retval>>

\* lines 305-311: no rule selected, look the toolkit name up in the rule table
old_way ==
    /\ pc = "rules"
    /\ preparation_methods = <<>>
    /\ IF name \in SeqToSet(meth_keys)
       THEN LET r == CallRule(name, Ok(vars, warnings))
            IN /\ invoked' = Append(invoked, name)
               /\ vars' = r.vars
               /\ warnings' = r.warnings
               /\ err' = r.err
               /\ pc' = IF r.err # NoError THEN "failed" ELSE AfterGenerate(onlymod)
       ELSE /\ err' = LogError("311", "_generate_variables",
                               "Don't know how to prepare toolkit '" \o name \o "'.")
            /\ pc' = "failed"
            /\ UNCHANGED <<invoked, vars, warnings>>
    /\ UNCHANGED <<name, version, opts, m32flag, dependencies, arch, toolkit_deps,
                   loaded, environ, onlymod, prev_loaded_modules, preparation_methods,
                   applied, load_requests, loaded_by_toolkit, retval>>

-----------------------------------------------------------------------------
(* Toolkit._determineArchitecture *)

\* cpuinfo: the vendor_id of /proc/cpuinfo, "" when the file has no such line
_determineArchitecture(cpuinfo) ==
    /\ pc = "arch"
    /\ IF cpuinfo = ""
       THEN /\ err' = PyError("AttributeError",
                              "'NoneType' object has no attribute 'groupdict'")
            /\ pc' = "failed"
            /\ arch' = arch
       ELSE IF cpuinfo \in {"GenuineIntel", "AuthenticAMD"}
       THEN /\ arch' = IF cpuinfo = "GenuineIntel" THEN "Intel" ELSE "AMD"
            /\ pc' = "generate"
            /\ err' = err
       ELSE /\ err' = LogError("234", "_determineArchitecture",
                               "Unknown architecture detected: " \o cpuinfo)
            /\ pc' = "failed"
            /\ arch' = arch
    /\ UNCHANGED <<name, version, opts, m32flag, dependencies, vars, toolkit_deps,
                   loaded, environ, warnings, onlymod, prev_loaded_modules,
                   preparation_methods, invoked, applied, load_requests,
             loaded_by_toolkit, retval>>

-----------------------------------------------------------------------------
(* Toolkit._setVariables *)

\* the argument of prepare: None, a bool, a str or a list
NoneArg == [type |-> "NoneType", b |-> FALSE, s |-> "", l |-> <<>>]
BoolArg(b) == [type |-> "bool", b |-> b, s |-> "", l |-> <<>>]
StrArg(s) == [type |-> "str", b |-> FALSE, s |-> s, l |-> <<>>]
ListArg(l) == [type |-> "list", b |-> FALSE, s |-> "", l |-> l]

dontsetlist(dontset) ==
    IF dontset.type = "str" THEN SeqToSet(Split(dontset.s, ","))
    ELSE IF dontset.type = "list" THEN SeqToSet(dontset.l)
    ELSE {}

\* one pass of the loop body for key; acc = [environ, applied]
setVariable_MirrorExcluded(acc, key, val, dontset) ==
    IF key \in dontsetlist(dontset)
    THEN [environ |-> Put(acc.environ, "SOFTVAR" \o key, val),
          applied |-> acc.applied \cup {"SOFTVAR" \o key}]
    ELSE [environ |-> Put(Put(acc.environ, key, val), "SOFTVAR" \o key, val),
          applied |-> acc.applied \cup {key, "SOFTVAR" \o key}]

setVariable(acc, key, val, dontset) ==
    IF key \in dontsetlist(dontset) THEN acc
    ELSE [environ |-> Put(Put(acc.environ, key, val), "SOFTVAR" \o key, val),
          applied |-> acc.applied \cup {key, "SOFTVAR" \o key}]

\* for key, val in self.vars.items()
RECURSIVE setVariablesLoop(_, _, _, _)
setVariablesLoop(acc, v, keys, dontset) ==
    IF keys = {} THEN acc
    ELSE LET key == CHOOSE k \in keys : TRUE
         IN setVariablesLoop(setVariable(acc, key, v[key], dontset), v,
                             keys \ {key}, dontset)

_setVariables ==
    /\ pc = "setvars"
    /\ LET acc == setVariablesLoop([environ |-> environ, applied |-> applied], vars,
                                   DOMAIN vars, onlymod)
       IN /\ environ' = acc.environ
          /\ applied' = acc.applied
    /\ pc' = "done"
    /\ UNCHANGED <<name, version, opts, m32flag, dependencies, vars, arch, toolkit_deps,
                   loaded, err, warnings, onlymod, prev_loaded_modules,
                   preparation_methods, invoked, load_requests, loaded_by_toolkit,
                   retval>>

\* lines 177-178 of prepare: _setVariables runs only if _addDependencyVariables
\* returned without raising
afterFold_Always(r) == "setvars"

afterFold(r) == IF r.err # NoError THEN "failed" ELSE "setvars"

\* line 177 of prepare: fold the declared dependencies' path flags into vars
foldDependencyVariables ==
    /\ pc = "depvars"
    /\ LET r == _addDependencyVariables(Ok(vars, warnings), dependencies, environ)
       IN /\ vars' = r.vars
          /\ warnings' = r.warnings
          /\ err' = r.err
          /\ pc' = afterFold(r)
    /\ UNCHANGED <<name, version, opts, m32flag, dependencies, arch, toolkit_deps,
                   loaded, environ, onlymod, prev_loaded_modules, preparation_methods,
                   invoked, applied, load_requests, loaded_by_toolkit, retval>>

-----------------------------------------------------------------------------
(* Toolkit.prepare, lines 134-165: verify, load, compute toolkit_deps *)

\* Toolkit._toolkitExists() with the default arguments
_toolkitExists(n, v) == IF n = "dummy" THEN TRUE ELSE ModExists(n, v)

\* the module a dependency descriptor names
DepModule(dep) == Mod(dep["name"], dep["tk"])

DepModules(deps) == [i \in 1..Len(deps) |-> DepModule(deps[i])]

\* Modules.load(): the requested modules not yet loaded join the loaded list
RECURSIVE LoadModules(_, _)
LoadModules(cur, ms) ==
    IF ms = <<>> THEN cur
    ELSE LoadModules(IF Head(ms) \in SeqToSet(cur) THEN cur ELSE Append(cur, Head(ms)),
                     Tail(ms))

\* the for loop over self.toolkit_deps that removes from the list it walks: i is
\* the list iterator's index, which moves on by one whether or not the list shrank
removeLoop_Copy(lst, i, prev, n) ==
    SelectSeq(lst, LAMBDA dep : ~(dep \in SeqToSet(prev) \/ n = dep.name))

RECURSIVE removeLoop(_, _, _, _)
removeLoop(lst, i, prev, n) ==
    IF i > Len(lst) THEN lst
    ELSE LET dep == lst[i]
         IN IF dep \in SeqToSet(prev) \/ n = dep.name
            THEN removeLoop(RemoveFirst(lst, dep), i + 1, prev, n)
            ELSE removeLoop(lst, i + 1, prev, n)

\* line 157: self.toolkit_deps = modules.loaded_modules(), read after the load of
\* the toolkit module and before the load of the declared dependencies
toolkitDepsSnapshot_AfterDeps(after, deps) == LoadModules(after, DepModules(deps))

toolkitDepsSnapshot(after, deps) == after

\* line 137: if self.name == 'dummy'
isDummy_Never(n) == FALSE

isDummy(n) == n = "dummy"

\* arg: the onlymod argument; new: the toolkit module and the modules it loads, in
\* the order the module system lists them
prepare(arg, new) ==
    /\ pc = "idle"
    /\ onlymod' = arg
    /\ IF ~_toolkitExists(name, version)
       THEN /\ err' = LogError("135", "prepare",
                        "No module found for toolkit name '" \o name \o "' ("
                        \o version \o ")")
            /\ pc' = "failed"
            /\ UNCHANGED <<toolkit_deps, loaded, environ, prev_loaded_modules,
                           load_requests, loaded_by_toolkit>>
       ELSE IF isDummy(name)
       THEN /\ pc' = "done"
            /\ err' = err
            /\ UNCHANGED <<toolkit_deps, prev_loaded_modules, loaded_by_toolkit>>
            /\ IF version = "dummy"
               THEN UNCHANGED <<loaded, environ, load_requests>>
               ELSE /\ load_requests' = Append(load_requests, DepModules(dependencies))
                    /\ loaded' = LoadModules(loaded, DepModules(dependencies))
                    /\ environ' = ModulesEnv(DepModules(dependencies), environ)
       ELSE LET after == loaded \o new
            IN /\ prev_loaded_modules' = loaded
               /\ loaded_by_toolkit' = after
               /\ toolkit_deps' = removeLoop(toolkitDepsSnapshot(after, dependencies),
                                             1, loaded, name)
               /\ load_requests' = load_requests
                                   \o << <<Mod(name, version)>>, DepModules(dependencies) >>
               /\ loaded' = LoadModules(after, DepModules(dependencies))
               /\ environ' = ModulesEnv(new \o DepModules(dependencies), environ)
               /\ pc' = "arch"
               /\ err' = err
    /\ UNCHANGED <<name, version, opts, m32flag, dependencies, vars, arch, warnings,
                   preparation_methods, invoked, applied, retval>>

-----------------------------------------------------------------------------
(* Inputs explored *)

\* toolkits constructed
Toolkits ==
    { Mod("goalf", "1.1.0"), Mod("goalf", "1.1.0-32bit"), Mod("GCC", "4.6.3"),
      Mod("dummy", "dummy"), Mod("dummy", "1.0"), Mod("ictce", "4.0.6") }

\* modules loaded before the Toolkit is prepared
PrevLoadedChoices ==
    { <<>>, <<Mod("zlib", "1.2.5")>>, <<Mod("zlib", "1.2.5"), Mod("ncurses", "5.9")>> }

\* modules a toolkit module may load
ToolkitDepUniverse ==
    { Mod("GCC", "4.6.3"), Mod("ATLAS", "3.8.4"), Mod("LAPACK", "3.4.0"),
      Mod("unknownlib", "1.0") }

Perms(S) ==
    { f \in [1..Cardinality(S) -> S] : \A i, j \in 1..Cardinality(S) : i # j => f[i] # f[j] }

\* what loaded_modules() may list after the load of toolkit module tk, beyond cur
LoadOutcomes(tk, cur) ==
    UNION { Perms(S \cup {tk}) :
            S \in { T \in SUBSET { m \in ToolkitDepUniverse :
                                     m.name # tk.name /\ m \notin SeqToSet(cur) } :
                      Cardinality(T) <= MaxToolkitDeps } }

OnlymodInputs ==
    { NoneArg, BoolArg(TRUE), StrArg("CC,CFLAGS"), ListArg(<<"LDFLAGS">>) }

CpuInfos == { "GenuineIntel", "CentaurHauls" }

OptionInputs ==
    { [usempi |-> TRUE], [cciscxx |-> TRUE, bogus |-> TRUE] }

DepInputs ==
    { << [name |-> "FFTW", version |-> "3.3.1"] >>,
      << [name |-> "ncurses", version |-> "5.9", dummy |-> TRUE] >>,
      << [name |-> "nosuchlib", version |-> "0.1"] >> }

\* toolkits whose modules load the libraries of the rule table
RuleToolkits ==
    { Mod("goalf", "1.1.0"), Mod("ictce", "4.0.6-32bit"), Mod("1_GCC", "4.6.3") }

\* what such a toolkit module loads besides itself, in the order listed
RuleLoadLists ==
    LET GCC == Mod("GCC", "4.6.3")
        icc == Mod("icc", "2011.6.233")
    IN { <<>>,
         <<GCC, Mod("ATLAS", "3.8.4"), Mod("LAPACK", "3.4.0"), Mod("FLAME", "5.0")>>,
         <<GCC, Mod("BLACS", "1.1"), Mod("ScaLAPACK", "1.8.0")>>,
         <<GCC, Mod("MVAPICH2", "1.7"), Mod("GotoBLAS", "1.13"), Mod("LAPACK", "3.4.0")>>,
         <<GCC, Mod("OpenMPI", "1.4.5"), Mod("FFTW", "3.3.1")>>,
         <<icc, Mod("imkl", "10.2.6.038"), Mod("BLACS", "1.1"), Mod("ScaLAPACK", "1.8.0")>>,
         <<icc, Mod("imkl", "10.3.6.233")>>,
         <<GCC, Mod("imkl", "10.2.6.038")>>,
         <<GCC, icc, Mod("imkl", "10.2.6.038")>>,
         <<GCC, Mod("MPICH2", "1.4")>>,
         <<GCC, Mod("MPICH2", "1.4-vSMP")>>,
         <<GCC, Mod("QLogicMPI", "2.9")>>,
         <<GCC, Mod("impi", "4.0.2")>>,
         <<Mod("impi", "4.0.2")>>,
         <<icc, Mod("impi", "4.0.2")>>,
         <<Mod("LAPACK", "3.4.0")>>,
         <<Mod("FLAME", "5.0")>>,
         <<Mod("ScaLAPACK", "1.8.0")>> }

RuleLoadOutcomes(tk) == { <<tk>> \o l : l \in RuleLoadLists }

RuleOptionInputs ==
    { [usempi |-> TRUE], [k \in {"packed-groups"} |-> TRUE],
      [usempi |-> TRUE, cciscxx |-> TRUE] }

\* the dependency lists handed to addDependencies before a rule-table run; the
\* Fortran compiler of an Intel stack is declared as a dependency
RuleDepInputs ==
    DepInputs \cup { << [name |-> "ifort", version |-> "2011.6.233", dummy |-> TRUE] >> }

RuleOnlymodInputs == { NoneArg, BoolArg(TRUE) }

-----------------------------------------------------------------------------
(* Direct calls of the helpers *)

\* self._getOptimizationLevel()
call_getOptimizationLevel ==
    /\ pc = "idle"
    /\ retval' = [fn |-> "_getOptimizationLevel", arg |-> opts,
                  val |-> _getOptimizationLevel(opts)]
    /\ UNCHANGED <<name, version, opts, m32flag, dependencies, vars, arch, toolkit_deps,
                   loaded, environ, pc, err, warnings, onlymod, prev_loaded_modules,
                   preparation_methods, invoked, applied, load_requests,
                   loaded_by_toolkit>>

\* self.getDependencyVersion(dependency)
call_getDependencyVersion(dependency) ==
    /\ pc = "idle"
    /\ LET r == getDependencyVersion(name, version, dependency)
       IN /\ retval' = IF r.err = NoError
                       THEN [fn |-> "getDependencyVersion", arg |-> dependency,
                             val |-> r.val]
                       ELSE retval
          /\ err' = r.err
          /\ pc' = IF r.err = NoError THEN "idle" ELSE "failed"
    /\ UNCHANGED <<name, version, opts, m32flag, dependencies, vars, arch, toolkit_deps,
                   loaded, environ, warnings, onlymod, prev_loaded_modules,
                   preparation_methods, invoked, applied, load_requests,
                   loaded_by_toolkit>>

-----------------------------------------------------------------------------
(* Inputs of the configuration calls *)

OptionKeysTried == {"noopt", "opt", "lowopt", "bogus"}

\* every dict over some of the keys tried, with boolean values
OptionInputsAll == UNION { [K -> BOOLEAN] : K \in SUBSET OptionKeysTried }

Descriptors ==
    { [name |-> "FFTW", version |-> "3.3.1"],
      [name |-> "zlib", version |-> "1.2.5", dummy |-> TRUE],
      [name |-> "zlib", version |-> "1.2.5", dummy |-> FALSE],
      [name |-> "FFTW", version |-> "3.3.1", suffix |-> "-mt"],
      [name |-> "HDF5"],
      [name |-> "nosuchlib", version |-> "0.1"],
      [name |-> "FFTW", tk |-> "3.3.1-GCC-4.6.3"] }

\* the lists of one or two descriptors
DepInputsAll ==
    { <<d>> : d \in Descriptors } \cup { <<d, e>> : d \in Descriptors, e \in Descriptors }

-----------------------------------------------------------------------------
(* Specifications *)

InitFor(toolkits, prevs) ==
    /\ \E tk \in toolkits :
          /\ name = tk.name
          /\ version = tk.version
          /\ opts = InitOpts(tk.version)
          /\ m32flag = Initm32flag(tk.version)
    /\ dependencies = <<>>
    /\ vars = EmptyDict
    /\ arch = ""
    /\ toolkit_deps = <<>>
    /\ \E prev \in prevs :
          /\ loaded = prev
          /\ environ = ModulesEnv(prev, [k \in {"CC"} |-> "cc"])
    /\ pc = "idle"
    /\ err = NoError
    /\ warnings = {}
    /\ onlymod = NoneArg
    /\ prev_loaded_modules = <<>>
    /\ preparation_methods = <<>>
    /\ invoked = <<>>
    /\ applied = {}
    /\ load_requests = <<>>
    /\ loaded_by_toolkit = <<>>
    /\ retval = NoCall

\* a Toolkit is constructed, configured and prepared
Init == InitFor(Toolkits, PrevLoadedChoices)

Next ==
    \/ \E options \in OptionInputs : setOptions(options)
    \/ \E deps \in DepInputs : addDependencies(deps)
    \/ /\ pc = "idle"
       /\ \E new \in LoadOutcomes(Mod(name, version), loaded), arg \in OnlymodInputs :
             prepare(arg, new)
    \/ \E cpuinfo \in CpuInfos : _determineArchitecture(cpuinfo)
    \/ _generate_variables
    \/ preparation_method
    \/ old_way
    \/ foldDependencyVariables
    \/ _setVariables

Spec == Init /\ [][Next]_allVars

\* a Toolkit is constructed and configured with any options and dependencies
InitConfig == InitFor(Toolkits, {<<>>})

NextConfig ==
    \/ \E options \in OptionInputsAll : setOptions(options)
    \/ \E deps \in DepInputsAll : addDependencies(deps)

SpecConfig == InitConfig /\ [][NextConfig]_allVars

\* a Toolkit whose module loads libraries of the rule table is prepared
InitRules == InitFor(RuleToolkits, {<<>>})

NextRules ==
    \/ \E options \in RuleOptionInputs : setOptions(options)
    \/ \E deps \in RuleDepInputs : addDependencies(deps)
    \/ /\ pc = "idle"
       /\ \E new \in RuleLoadOutcomes(Mod(name, version)), arg \in RuleOnlymodInputs :
             prepare(arg, new)
    \/ \E cpuinfo \in CpuInfos : _determineArchitecture(cpuinfo)
    \/ _generate_variables
    \/ preparation_method
    \/ old_way
    \/ foldDependencyVariables
    \/ _setVariables

SpecRules == InitRules /\ [][NextRules]_allVars

\* a Toolkit is constructed, given any options, and its helpers are called
BitOptionInputs == { [k \in {"32bit"} |-> b] : b \in BOOLEAN }

NextHelpers ==
    \/ \E options \in OptionInputsAll \cup BitOptionInputs : setOptions(options)
    \/ call_getOptimizationLevel
    \/ \E dependency \in Descriptors : call_getDependencyVersion(dependency)

SpecHelpers == InitConfig /\ [][NextHelpers]_allVars

-----------------------------------------------------------------------------
(* Properties of the preparation pipeline, checked under Spec *)

\* the lower-cased names the rule table knows
RuleNamesLower == { Lower(meth_name(meth_keys[i])) : i \in 1..Len(meth_keys) }

\* the positions of toolkit_deps whose name matches no rule
Unmatched ==
    { i \in 1..Len(toolkit_deps) : Lower(toolkit_deps[i].name) \notin RuleNamesLower }

\* _setVariables has run in this call of prepare
ApplierRan == pc = "done" /\ name # "dummy" /\ ~(onlymod.type = "bool" /\ onlymod.b)

\* C1: the preparation rules are invoked in ascending order of their priority
\* prefix, whatever the order of toolkit_deps: no rule is invoked before a rule
\* with a lower priority number.
C1_InvokedInPriorityOrder ==
    \A i, j \in 1..Len(invoked) :
        i < j => meth_prio(invoked[i]) <= meth_prio(invoked[j])

\* C2, as the specification states it: when _setVariables runs with an exclusion
\* list, SOFTVAR<key> is set to the key's value for every key of vars, excluded
\* keys included.
C2_MirrorSetForEveryKey ==
    [][ (_setVariables /\ onlymod.type \in {"str", "list"})
        => \A key \in DOMAIN vars :
              /\ Has(environ', "SOFTVAR" \o key)
              /\ environ'["SOFTVAR" \o key] = vars[key] ]_allVars

\* C2, as the code has it: _setVariables sets <key> and SOFTVAR<key> to the key's
\* value for every key of vars that is not in the exclusion list, and leaves both
\* <key> and SOFTVAR<key> as they were for every key that is in the exclusion list.
C2_ExcludedKeysNotMirrored ==
    [][ _setVariables
        => \A key \in DOMAIN vars :
              IF key \in dontsetlist(onlymod)
              THEN \A k \in {key, "SOFTVAR" \o key} :
                      /\ Has(environ', k) <=> Has(environ, k)
                      /\ Has(environ, k) => environ'[k] = environ[k]
                      /\ k \in applied' <=> k \in applied
              ELSE \A k \in {key, "SOFTVAR" \o key} :
                      /\ Has(environ', k)
                      /\ environ'[k] = vars[key]
                      /\ k \in applied' ]_allVars

\* _setVariables has run with CC and CFLAGS excluded: CC keeps the value it had,
\* CXX is applied
C2_Witness ==
    /\ ApplierRan
    /\ onlymod = StrArg("CC,CFLAGS")
    /\ {"CC", "CFLAGS", "CXX"} \subseteq DOMAIN vars
    /\ environ["CC"] = "cc"
    /\ vars["CC"] # "cc"
    /\ ~Has(environ, "SOFTVARCC")
    /\ Has(environ, "SOFTVARCXX")

\* C3: once prepare of a non-dummy toolkit has computed toolkit_deps, it holds
\* exactly the modules loaded after the toolkit module load that were not in the
\* snapshot taken before and whose name is not the toolkit's name.
C3_ToolkitDepsIsDifference ==
    loaded_by_toolkit # <<>>
    => SeqToSet(toolkit_deps)
         = { m \in SeqToSet(loaded_by_toolkit) :
               m \notin SeqToSet(prev_loaded_modules) /\ m.name # name }

\* C4: while toolkit_deps has a name that matches no rule, no rule is invoked,
\* vars stays empty and nothing is applied; _generate_variables then fails with
\* the error that names the first such dependency.
C4_UnmatchedDependencyFails ==
    /\ [](Unmatched # {}
          => /\ pc \in {"arch", "generate", "failed"}
             /\ invoked = <<>>
             /\ preparation_methods = <<>>
             /\ vars = EmptyDict
             /\ applied = {})
    /\ [][ (_generate_variables /\ Unmatched # {})
           => /\ pc' = "failed"
              /\ vars' = vars
              /\ LET i == CHOOSE k \in Unmatched : \A l \in Unmatched : k <= l
                 IN err' = LogError("294", "_generate_variables",
                             "Don't know how to prepare for toolkit dependency "
                             \o Lower(toolkit_deps[i].name)) ]_allVars

\* _generate_variables has failed on unknownlib, which follows the recognized ATLAS
C4_Witness ==
    /\ pc = "failed"
    /\ arch # ""
    /\ Len(toolkit_deps) = 2
    /\ toolkit_deps[1].name = "ATLAS"
    /\ toolkit_deps[2].name = "unknownlib"
    /\ Contains(err.msg, "toolkit dependency unknownlib")
    /\ invoked = <<>>

\* C5: a variable of vars is applied to the environment only in a run of prepare
\* whose module verification, selected rules and dependency folding have all
\* completed without error; a run that has failed has applied none.
C5_AppliedOnlyAfterSuccess ==
    /\ applied # {}
       => /\ pc = "done"
          /\ err = NoError
          /\ _toolkitExists(name, version)
          /\ invoked = preparation_methods
          /\ Unmatched = {}
          /\ \A i \in 1..Len(dependencies) :
                getSoftwareRoot(dependencies[i]["name"], environ) # ""
    /\ pc = "failed" => applied = {}
    /\ \A k \in DOMAIN environ : StartsWith(k, "SOFTVAR") => k \in applied

\* prepare has failed in the dependency folding, after every selected rule has
\* run and filled vars
C5_Witness ==
    /\ pc = "failed"
    /\ invoked # <<>>
    /\ invoked = preparation_methods
    /\ dependencies # <<>>
    /\ Has(vars, "CC")
    /\ ~Has(environ, "SOFTVARCC")
    /\ applied = {}

\* C6: for a toolkit named dummy no rule is invoked, vars stays empty and nothing
\* is applied to the environment; with version dummy no module load is requested
\* and the environment stays as it was, with another version the one load
\* requested is that of the declared dependency modules.
C6_DummyToolkit ==
    name = "dummy"
    => /\ invoked = <<>>
       /\ preparation_methods = <<>>
       /\ vars = EmptyDict
       /\ applied = {}
       /\ toolkit_deps = <<>>
       /\ IF version = "dummy"
          THEN /\ load_requests = <<>>
               /\ environ = ModulesEnv(loaded, [k \in {"CC"} |-> "cc"])
          ELSE /\ pc = "done" => load_requests = << DepModules(dependencies) >>
               /\ pc # "done" => load_requests = <<>>

\* prepare of dummy/1.0 has returned after loading its one declared dependency
C6_Witness ==
    /\ name = "dummy"
    /\ version # "dummy"
    /\ pc = "done"
    /\ Len(dependencies) = 1
    /\ DepModule(dependencies[1]) \in SeqToSet(loaded)

-----------------------------------------------------------------------------
(* Properties of the helpers and of setOptions, checked under SpecHelpers *)

\* C7: for a descriptor with an explicit version getDependencyVersion returns the
\* version, then the toolkit suffix, then the descriptor's suffix; the toolkit
\* suffix is empty for a descriptor flagged toolkit-independent, -<name>-<version>
\* for a non-dummy toolkit, the toolkit version for a dummy toolkit whose version
\* is not dummy, and empty for dummy/dummy. FFTW 3.3.1 under GCC/4.6.3 gives
\* 3.3.1-GCC-4.6.3.
C7_VersionOfExplicitDescriptor ==
    (retval.fn = "getDependencyVersion" /\ Has(retval.arg, "version"))
    => LET dep == retval.arg
           independent == Has(dep, "dummy") /\ dep["dummy"]
           depsuffix == IF Has(dep, "suffix") THEN dep["suffix"] ELSE ""
       IN /\ independent => retval.val = dep["version"] \o depsuffix
          /\ (~independent /\ name # "dummy")
             => retval.val = dep["version"] \o "-" \o name \o "-" \o version \o depsuffix
          /\ (~independent /\ name = "dummy" /\ version # "dummy")
             => retval.val = dep["version"] \o version \o depsuffix
          /\ (~independent /\ name = "dummy" /\ version = "dummy")
             => retval.val = dep["version"] \o depsuffix
          /\ (name = "GCC" /\ version = "4.6.3"
              /\ dep = [name |-> "FFTW", version |-> "3.3.1"])
             => retval.val = "3.3.1-GCC-4.6.3"

\* getDependencyVersion has answered for a toolkit-independent descriptor under a
\* non-dummy toolkit
C7_Witness ==
    /\ retval.fn = "getDependencyVersion"
    /\ Has(retval.arg, "version")
    /\ Has(retval.arg, "dummy")
    /\ retval.arg["dummy"]
    /\ name = "GCC"
    /\ retval.val = "1.2.5"

\* C9: _getOptimizationLevel answers for each of the 8 combinations of noopt, opt
\* and lowopt with one of O0, O1, O2, O3: O0 if noopt is set, else O3 if opt is
\* set, else O1 if lowopt is set, else O2; opt and noopt together give O0.
C9_OptimizationLevelPrecedence ==
    retval.fn = "_getOptimizationLevel"
    => LET o == retval.arg
       IN /\ retval.val \in {"O0", "O1", "O2", "O3"}
          /\ o["noopt"] => retval.val = "O0"
          /\ (~o["noopt"] /\ o["opt"]) => retval.val = "O3"
          /\ (~o["noopt"] /\ ~o["opt"] /\ o["lowopt"]) => retval.val = "O1"
          /\ (~o["noopt"] /\ ~o["opt"] /\ ~o["lowopt"]) => retval.val = "O2"
          /\ (o["opt"] /\ o["noopt"]) => retval.val = "O0"

\* _getOptimizationLevel has answered with opt and noopt both set
C9_Witness ==
    /\ retval.fn = "_getOptimizationLevel"
    /\ retval.arg["opt"]
    /\ retval.arg["noopt"]
    /\ ~retval.arg["lowopt"]
    /\ retval.val = "O0"

\* C10: the option keys stay those set at construction; setOptions never raises,
\* gives every recognized key of its argument the argument's value and leaves
\* every other option as it was, whether or not the argument has unrecognized
\* keys.
C10_OptionKeysClosed ==
    /\ [](DOMAIN opts = DOMAIN DefaultOpts)
    /\ [][ \A options \in OptionInputsAll :
              setOptions(options)
              => /\ pc' = pc
                 /\ err' = err
                 /\ \A opt \in DOMAIN opts :
                       opts'[opt] = IF opt \in DOMAIN options THEN options[opt]
                                    ELSE opts[opt]
          ]_allVars

\* setOptions has warned about the unrecognized key bogus and applied noopt
C10_Witness ==
    /\ "Undefined toolkit option bogus specified." \in warnings
    /\ opts["noopt"]
    /\ ~opts["opt"]
    /\ pc = "idle"

-----------------------------------------------------------------------------
(* Properties of addDependencies, checked under SpecConfig *)

\* C8: every descriptor of the dependencies list carries a resolved version whose
\* module exists; addDependencies keeps the list it had and appends the resolved
\* descriptors in order up to the first one it cannot add, and then fails: with
\* the error naming the dependency's name and resolved version if its module does
\* not exist.
C8_DependenciesExist ==
    /\ [](\A i \in 1..Len(dependencies) :
             /\ Has(dependencies[i], "tk")
             /\ Mod(dependencies[i]["name"], dependencies[i]["tk"]) \in ModuleRepo)
    /\ [][ \A deps \in DepInputsAll :
              addDependencies(deps)
              => LET old == Len(dependencies)
                     added == Len(dependencies') - old
                 IN /\ added \in 0..Len(deps)
                    /\ SubSeq(dependencies', 1, old) = dependencies
                    /\ \A i \in 1..added :
                          /\ dependencies'[old + i]["name"] = deps[i]["name"]
                          /\ Has(deps[i], "tk")
                             => dependencies'[old + i]["tk"] = deps[i]["tk"]
                    /\ added = Len(deps) => pc' = "idle" /\ err' = NoError
                    /\ added < Len(deps)
                       => LET bad == deps[added + 1]
                              res == IF Has(bad, "tk")
                                     THEN [val |-> bad["tk"], err |-> NoError]
                                     ELSE getDependencyVersion(name, version, bad)
                          IN /\ pc' = "failed"
                             /\ IF res.err # NoError THEN err' = res.err
                                ELSE /\ Mod(bad["name"], res.val) \notin ModuleRepo
                                     /\ err'.type = "EasyBuildError"
                                     /\ EndsWith(err'.msg,
                                           "No module found for dependency "
                                           \o bad["name"] \o "/" \o res.val)
          ]_allVars

\* addDependencies has appended FFTW and then failed on nosuchlib, whose module
\* does not exist
C8_Witness ==
    /\ pc = "failed"
    /\ name = "GCC"
    /\ Len(dependencies) = 1
    /\ dependencies[1]["name"] = "FFTW"
    /\ dependencies[1]["tk"] = "3.3.1-GCC-4.6.3"
    /\ EndsWith(err.msg, "No module found for dependency nosuchlib/0.1-GCC-4.6.3")

-----------------------------------------------------------------------------
(* Properties of the preparation rules *)

\* the rule that preparation_method is about to call
NextMeth == preparation_methods[Len(invoked) + 1]

\* C11: when the LAPACK rule runs after the ATLAS rule, it sets LIBLAPACK to
\* LIBBLAS followed by " -llapack" and LIBLAPACK_MT to LIBBLAS_MT followed by
\* " -llapack -lpthread", and leaves LIBBLAS and LIBBLAS_MT as they were.
C11_LAPACKExtendsBLAS ==
    [][ (preparation_method /\ NextMeth = "4_LAPACK" /\ "3_ATLAS" \in SeqToSet(invoked))
        => /\ vars'["LIBLAPACK"] = vars["LIBBLAS"] \o " -llapack"
           /\ vars'["LIBLAPACK_MT"] = vars["LIBBLAS_MT"] \o " -llapack -lpthread"
           /\ vars'["LIBBLAS"] = vars["LIBBLAS"]
           /\ vars'["LIBBLAS_MT"] = vars["LIBBLAS_MT"]
           /\ vars'["LIBLAPACK"] = " -latlas -llapack -lcblas -lf77blas -llapack" ]_allVars

\* the LAPACK rule has run right after the ATLAS rule
C11_Witness ==
    /\ invoked = <<"3_ATLAS", "4_LAPACK">>
    /\ err = NoError
    /\ vars["LIBLAPACK_MT"]
         = " -latlas -llapack -lptcblas -lptf77blas -lpthread -llapack -lpthread"

\* the library identifiers of the rule table
RuleNames == { meth_name(meth_keys[i]) : i \in 1..Len(meth_keys) }

\* C12: when no rule was selected, the fallback looks the toolkit name up among
\* the rules' library identifiers: if the name is one of them that rule is
\* invoked, once, and only if it is none of them preparation fails.
C12_FallbackMatchesToolkitName ==
    [][ old_way
        => IF name \in RuleNames
           THEN /\ Len(invoked') = 1
                /\ meth_name(invoked'[1]) = name
           ELSE /\ invoked' = <<>>
                /\ pc' = "failed"
                /\ err'.type = "EasyBuildError" ]_allVars

\* the variables the pipeline initialises to the empty string
FlagVars == {"CPPFLAGS", "LDFLAGS", "LIBS"}

\* the directory a flag entry names
flagDir(entry) == SubSeq(entry, 3, Len(entry))

\* C13: once CPPFLAGS, LDFLAGS and LIBS are initialised, every step of prepare
\* leaves each of them with its previous value as a prefix of the new one; every
\* -I or -L entry names a directory that exists, and no failure is about a
\* directory that was not found.
C13_FlagsOnlyGrow ==
    /\ [][ \A k \in FlagVars :
              Has(vars, k) => Has(vars', k) /\ StartsWith(vars'[k], vars[k]) ]_allVars
    /\ [](\A k \in {"CPPFLAGS", "LDFLAGS"} :
             Has(vars, k)
             => LET entries == Split(vars[k], " ")
                IN \A i \in 1..Len(entries) :
                      entries[i] # "" => isdir(flagDir(entries[i])))
    /\ [](pc = "failed" => ~Contains(err.msg, "Directory "))

\* prepare has returned with LDFLAGS extended twice, by a rule and by the fold of
\* a declared dependency, after warnings about subdirectories that were not found
C13_Witness ==
    /\ pc = "done"
    /\ err = NoError
    /\ "Directory /apps/FFTW/3.3.1-goalf-1.1.0/lib64 was not found" \in warnings
    /\ "Directory /apps/ATLAS/3.8.4/lib64 was not found" \in warnings
    /\ Contains(vars["LDFLAGS"], "-L/apps/ATLAS/3.8.4/lib")
    /\ Contains(vars["LDFLAGS"], "-L/apps/FFTW/3.3.1-goalf-1.1.0/lib")

\* prepare was called with onlyLoadModules = True
OnlyLoad == onlymod.type = "bool" /\ onlymod.b

\* the declared dependencies whose module the toolkit module did not load itself
DeclaredOnly ==
    { i \in 1..Len(dependencies) :
        DepModule(dependencies[i]) \notin SeqToSet(loaded_by_toolkit) }

\* C14: on a non-dummy toolkit, prepare(onlyLoadModules=True) loads the modules
\* and lets the rules populate vars, but neither folds the declared dependencies'
\* path flags into CPPFLAGS/LDFLAGS nor sets any environment variable from vars;
\* with None, a string or a list the path flags are folded and every key of vars
\* that is not in the exclusion list is applied to the environment.
C14_OnlyLoadModules ==
    /\ [][ (name # "dummy" /\ pc # "idle" /\ OnlyLoad)
           => /\ ~foldDependencyVariables
              /\ ~_setVariables
              /\ environ' = environ
              /\ applied' = applied ]_allVars
    /\ []((pc = "done" /\ name # "dummy" /\ OnlyLoad)
          => /\ applied = {}
             /\ load_requests # <<>>
             /\ invoked # <<>>
             /\ {"CPPFLAGS", "LDFLAGS"} \subseteq DOMAIN vars
             /\ \A i \in DeclaredOnly :
                   LET root == getSoftwareRoot(dependencies[i]["name"], environ)
                   IN root # "" => /\ ~Contains(vars["CPPFLAGS"], "-I" \o root)
                                   /\ ~Contains(vars["LDFLAGS"], "-L" \o root))
    /\ []((pc = "done" /\ name # "dummy" /\ ~OnlyLoad)
          => /\ \A key \in DOMAIN vars \ dontsetlist(onlymod) :
                   /\ Has(environ, key)
                   /\ environ[key] = vars[key]
                   /\ key \in applied
             /\ \A i \in 1..Len(dependencies) :
                   LET root == getSoftwareRoot(dependencies[i]["name"], environ)
                   IN /\ root # ""
                      /\ isdir(root \o "/include")
                         => Contains(vars["CPPFLAGS"], "-I" \o root \o "/include")
                      /\ isdir(root \o "/lib")
                         => Contains(vars["LDFLAGS"], "-L" \o root \o "/lib"))

\* prepare(True) has returned for a toolkit with a declared dependency the
\* toolkit module did not load: the rules have filled vars, the dependency's
\* module is loaded, its path flags are absent and nothing of vars is applied
C14_Witness ==
    /\ pc = "done"
    /\ name # "dummy"
    /\ OnlyLoad
    /\ DeclaredOnly # {}
    /\ \A i \in DeclaredOnly : DepModule(dependencies[i]) \in SeqToSet(loaded)
    /\ Has(vars, "CC")
    /\ vars["CPPFLAGS"] # ""
    /\ ~Has(environ, "SOFTVARCC")

\* the fixed link fragments of the BLACS, FLAME and ScaLAPACK rules
BLACSFragment == " -lblacsF77init -lblacs "
FLAMEFragment == " -llapack2flame -lflame "
ScaLAPACKFragment == " -lscalapack"

\* C15, as the specification states it: the BLACS, FLAME and ScaLAPACK rules only
\* extend the running link lines: the value held before the rule is a prefix of
\* the value after it, what is appended is the rule's fixed fragment, and the
\* threaded ScaLAPACK line gains the same fragment plus " -lpthread".
C15_RulesOnlyExtend ==
    [][ (preparation_method /\ err' = NoError)
        => /\ NextMeth = "5_BLACS"
              => \A k \in {"LIBSCALAPACK", "LIBSCALAPACK_MT"} :
                    vars'[k] = Get(vars, k, "") \o BLACSFragment
           /\ NextMeth = "5_FLAME"
              => \A k \in {"LIBLAPACK", "LIBLAPACK_MT"} :
                    vars'[k] = vars[k] \o FLAMEFragment
           /\ NextMeth = "6_ScaLAPACK"
              => /\ vars'["LIBSCALAPACK"] = vars["LIBSCALAPACK"] \o ScaLAPACKFragment
                 /\ vars'["LIBSCALAPACK_MT"]
                      = vars["LIBSCALAPACK_MT"] \o ScaLAPACKFragment \o " -lpthread"
      ]_allVars

\* C15, as the code has it: FLAME appends its fragment to LIBLAPACK and
\* LIBLAPACK_MT; BLACS sets LIBSCALAPACK and LIBSCALAPACK_MT to its fragment,
\* whatever they held; ScaLAPACK appends its fragment to LIBSCALAPACK, and
\* appends to LIBSCALAPACK_MT a space, the whole new LIBSCALAPACK value and
\* " -lpthread".
C15_BLACSSetsScaLAPACKRepeats ==
    [][ (preparation_method /\ err' = NoError)
        => /\ NextMeth = "5_BLACS"
              => \A k \in {"LIBSCALAPACK", "LIBSCALAPACK_MT"} :
                    vars'[k] = BLACSFragment
           /\ NextMeth = "5_FLAME"
              => \A k \in {"LIBLAPACK", "LIBLAPACK_MT"} :
                    vars'[k] = vars[k] \o FLAMEFragment
           /\ NextMeth = "6_ScaLAPACK"
              => /\ vars'["LIBSCALAPACK"] = vars["LIBSCALAPACK"] \o ScaLAPACKFragment
                 /\ vars'["LIBSCALAPACK_MT"]
                      = vars["LIBSCALAPACK_MT"] \o " " \o vars["LIBSCALAPACK"]
                        \o ScaLAPACKFragment \o " -lpthread"
      ]_allVars

\* the MKL rule wrote a ScaLAPACK line, BLACS replaced it and ScaLAPACK extended
\* the replacement
C15_Witness ==
    /\ invoked = <<"1_icc", "3_imkl", "5_BLACS", "6_ScaLAPACK">>
    /\ err = NoError
    /\ vars["LIBSCALAPACK"] = " -lblacsF77init -lblacs  -lscalapack"
    /\ vars["LIBSCALAPACK_MT"]
         = " -lblacsF77init -lblacs   -lblacsF77init -lblacs  -lscalapack -lpthread"

\* the variables whose library name the MKL rule rewrites for GCC
MKLRewritten == {"LIBLAPACK", "LIBLAPACK_MT", "LIBSCALAPACK", "LIBSCALAPACK_MT"}

CompilerConflict == "Toolkit preparation with both GCC and Intel compilers loaded is not supported."

\* C16: when the MKL rule runs with GCC loaded and no Intel compiler loaded, it
\* ends without a fatal error and no mkl_intel_lp64 is left in LIBLAPACK,
\* LIBLAPACK_MT, LIBSCALAPACK and LIBSCALAPACK_MT (each reads mkl_gf_lp64
\* instead); the compiler-conflict error is raised only when GCC and an Intel
\* compiler are both loaded.
C16_MKLWithGCC ==
    [][ (preparation_method /\ NextMeth = "3_imkl" /\ EnvTrue("SOFTROOTGCC"))
        => IF EnvTrue("SOFTROOTICC")
           THEN TRUE
           ELSE /\ err' = NoError
                /\ ~EndsWith(err'.msg, CompilerConflict)
                /\ \A var \in MKLRewritten :
                      /\ ~Contains(vars'[var], "mkl_intel_lp64")
                      /\ Contains(vars'[var], "mkl_gf_lp64") ]_allVars

\* C17: every failure of a preparation rule is raised as an EasyBuildError carrying the
\* formatted message, never as another kind of exception; among them an MPICH2
\* version without the vSMP marker, 32-bit with an MKL version from 10.3 on, and
\* a rule reading a variable that no earlier rule has written.
C17_FailuresAreEasyBuildErrors ==
    [][ (preparation_method /\ pc' = "failed")
        => /\ err'.type = "EasyBuildError"
           /\ StartsWith(err'.msg, "EasyBuild crashed with an error ") ]_allVars

\* C18: when the QLogic MPI rule runs after a compiler rule, the MPICC, MPICXX,
\* MPIF77 and MPIF90 wrappers it writes quote the CC, CXX, F77 and F90 values
\* that vars held when the rule started, those the compiler rule wrote, not the
\* values of the process environment.
C18_QLogicQuotesVars ==
    [][ (preparation_method /\ NextMeth = "2_QLogicMPI"
           /\ {"CC", "CXX", "F77", "F90"} \subseteq DOMAIN vars)
        => /\ vars'["MPICC"] = "mpicc -cc=\"" \o vars["CC"] \o "\""
           /\ vars'["MPICXX"] = "mpicxx -CC=\"" \o vars["CXX"] \o "\""
           /\ vars'["MPIF77"] = "mpif77 -fc=\"" \o vars["F77"] \o "\""
           /\ vars'["MPIF90"] = "mpif90 -f90=\"" \o vars["F90"] \o "\"" ]_allVars

\* C19, as the specification states it: after construction and any sequence of
\* setOptions calls, the '32bit' option is enabled if and only if m32flag is
\* non-empty, and a toolkit whose version ends in '32bit' keeps both set.
C19_OptionIffFlag ==
    /\ opts["32bit"] <=> m32flag # ""
    /\ EndsWith(version, "32bit") => opts["32bit"] /\ m32flag = " -m32"

\* C19, as the code has it: the constructor enables the '32bit' option and sets
\* m32flag to " -m32" exactly when the version ends in '32bit'; m32flag keeps
\* that value for the Toolkit's lifetime, while the '32bit' option is an
\* ordinary option that every later setOptions call naming it overwrites.
C19_FlagFixedAtConstruction ==
    /\ opts["32bit"] <=> m32flag # ""
    /\ [](/\ m32flag = " -m32" <=> EndsWith(version, "32bit")
          /\ m32flag = "" <=> ~EndsWith(version, "32bit")
          /\ opts["32bit"] \in BOOLEAN)
    /\ [][ /\ m32flag' = m32flag
           /\ version' = version
           /\ opts'["32bit"] # opts["32bit"]
              => \E options \in BitOptionInputs : setOptions(options) ]_allVars

\* setOptions has switched the '32bit' option off on a 32-bit toolkit: the
\* option and the flag disagree
C19_Witness ==
    /\ EndsWith(version, "32bit")
    /\ ~opts["32bit"]
    /\ m32flag = " -m32"

\* the names of the declared dependencies whose module the toolkit module did
\* not load itself
DeclaredOnlyNames == { Lower(dependencies[i]["name"]) : i \in DeclaredOnly }

\* C20: a module loaded only as a declared dependency is never in toolkit_deps:
\* toolkit_deps is taken from the loaded-module list read after the toolkit
\* module's load and before the declared dependencies' load, and is not changed
\* afterwards; such a module selects no rule and is never the one named by the
\* unknown-dependency error.
C20_DeclaredOnlyNeverToolkitDep ==
    /\ [](/\ SeqToSet(toolkit_deps) \subseteq SeqToSet(loaded_by_toolkit)
          /\ \A i \in DeclaredOnly :
                DepModule(dependencies[i]) \notin SeqToSet(toolkit_deps)
          /\ \A j \in 1..Len(preparation_methods) :
                \E d \in 1..Len(toolkit_deps) :
                   Lower(toolkit_deps[d].name) = Lower(meth_name(preparation_methods[j]))
          /\ \A n \in DeclaredOnlyNames \ SeqToSet(depnamesOf(toolkit_deps)) :
                ~EndsWith(err.msg, "Don't know how to prepare for toolkit dependency " \o n))
    /\ [][ pc # "idle" => toolkit_deps' = toolkit_deps ]_allVars

\* prepare has returned for a toolkit with a declared dependency that matches no
\* rule and was loaded after toolkit_deps was taken
C20_Witness ==
    /\ pc = "done"
    /\ err = NoError
    /\ toolkit_deps # <<>>
    /\ "ncurses" \in DeclaredOnlyNames
    /\ \A i \in DeclaredOnly : DepModule(dependencies[i]) \in SeqToSet(loaded)
    /\ invoked = preparation_methods

\* the rule-table keys of the compiler rules and of the MPI rules
CompilerRules == {"1_GCC", "1_icc"}
MPIRules == {"2_impi", "2_MPICH2", "2_MVAPICH2", "2_OpenMPI", "2_QLogicMPI"}

\* C21: with the usempi option enabled, when an MPI rule has run after a
\* compiler rule, CC, CXX, F77 and F90 equal MPICC, MPICXX, MPIF77 and MPIF90,
\* whatever the cciscxx option is.
C21_UseMpiPromotesWrappers ==
    [][ (preparation_method /\ NextMeth \in MPIRules /\ opts["usempi"]
           /\ SeqToSet(invoked) \cap CompilerRules # {} /\ err' = NoError)
        => /\ vars'["CC"] = vars'["MPICC"]
           /\ vars'["CXX"] = vars'["MPICXX"]
           /\ vars'["F77"] = vars'["MPIF77"]
           /\ vars'["F90"] = vars'["MPIF90"] ]_allVars

====
